---- MODULE Spec2Model ----
(***************************************************************************)
(* Effect-compositing pipeline of fury/actors/effect_manager.py:           *)
(* EffectManager (add, remove_effect), the KDE effect (apply, __call__)    *)
(* and the host show manager that dispatches the render event.             *)
(*                                                                         *)
(* Everything runs on the host event-loop thread.  pc is the position of   *)
(* that thread: idle between handlers, otherwise inside one handler at the *)
(* statement that runs next.  A handler ends in a "return" or a "raised"   *)
(* position, from which Return brings the thread back to idle.             *)
(***************************************************************************)
EXTENDS Integers, Sequences, FiniteSets, TLC

\* Bounds of the model.
MaxEffects == 2
NumCams == 2
NumSizes == 2

Effects == 1..MaxEffects
Cams == 1..NumCams
Sizes == 1..NumSizes

\* What an effect object handed to add does: "none" is a well-formed KDE,
\* "colormap" a KDE built with an unknown colormap name (create_colormap
\* raises inside apply), "call" an effect object whose __call__ raises.
FailModes == {"none", "colormap", "call"}

VARIABLES
    n_active_effects,  \* EffectManager._n_active_effects
    active_effects,    \* EffectManager._active_effects
    off_scene,         \* actors of off_manager.scene, in insertion order
    on_scene,          \* actors of on_manager.scene, in insertion order
    visible,           \* visibility flag of each first-pass billboard
    observers,         \* RenderEvent observers of on_manager.iren, in call order
    next_tag,          \* next observer tag the interactor hands out
    on_cam, off_cam,   \* camera parameters of the two scenes
    on_size, off_size, \* pixel size of the two windows
    off_manager_size,  \* off_manager.size, fixed at construction
    off_screen_rendering, \* off_manager.window off-screen rendering mode
    kde,               \* the KDE object whose constructor and apply are run alone
    call,              \* a call of a module-level function run alone
    managers,          \* the EffectManager objects of a host with several
    bound,             \* Texture objects set on the second-pass billboards
    gl,                \* depth and blending state of the off-screen window
    before_add,        \* what the last add found, while only its removal follows
    renders,           \* off-screen renders done by the running handler
    off_frame,         \* content of the off-screen framebuffer
    effect,            \* the fields of each effect object
    pc,                \* position of the event-loop thread
    pre,               \* manager state when the running handler was called
    inv,               \* statements done in the running callback invocation
    invoked            \* callbacks that ran to completion in the running handler

vars == <<n_active_effects, active_effects, off_scene, on_scene, visible,
          observers, next_tag, on_cam, off_cam, on_size, off_size,
          off_manager_size, off_screen_rendering, kde, before_add, call,
          managers,
          bound, gl, renders, off_frame, effect, pc, pre, inv, invoked>>

----------------------------------------------------------------------------
\* Actors.

\* effect.bill, the first-pass billboard built by KDE.__init__
Bill(e) == [kind |-> "bill", eff |-> e]

\* effect.textured_billboard, the second-pass billboard built by KDE.apply
TexturedBillboard(e) == [kind |-> "textured_billboard", eff |-> e]

Handles == {TexturedBillboard(e) : e \in Effects}

Range(s) == {s[i] : i \in 1..Len(s)}

\* A rendered frame: the camera and the pixel size it was rendered with.
NoFrame == [cam |-> 0, size |-> 0]

EmptyRegistry == [h \in {} |-> [callback_id |-> 0, bill |-> Bill(0)]]

\* self._active_effects[h] = v, line 219
RegistryPut(reg, h, v) ==
    [k \in (DOMAIN reg) \cup {h} |-> IF k = h THEN v ELSE reg[k]]

\* A pop that leaves the entry in place.
RegistryPop_Keep(reg, h) == reg

\* self._active_effects.pop(h), line 239
RegistryPop(reg, h) ==
    [k \in (DOMAIN reg) \ {h} |-> reg[k]]

----------------------------------------------------------------------------
\* Host scene and interactor.

\* scene.add(actor): appended unless already present
SceneAdd(scene, a) ==
    IF a \in Range(scene) THEN scene ELSE Append(scene, a)

\* scene.RemoveActor(actor): no effect when absent
RemoveActor(scene, a) ==
    SelectSeq(scene, LAMBDA x : x # a)

\* scene.GetActors().GetLastActor()
GetLastActor(scene) == scene[Len(scene)]

\* on_manager.add_iren_callback(callback, "RenderEvent") with tag `tag`
add_iren_callback(obs, tag, e) ==
    Append(obs, [id |-> tag, cb |-> e])

\* on_manager.iren.RemoveObserver(tag)
RemoveObserver(obs, tag) ==
    SelectSeq(obs, LAMBDA o : o.id # tag)

----------------------------------------------------------------------------
\* Positions of the thread.  local holds the handler's local callback_id.
At(op, step, e, idx, local) ==
    [op |-> op, step |-> step, eff |-> e, idx |-> idx, local |-> local,
     err |-> "none"]

Idle == At("idle", "idle", 0, 0, 0)

Raised(p, err) == [p EXCEPT !.step = "raised", !.err = err]

NoSnapshot == [active_effects |-> EmptyRegistry, n |-> 0, observers |-> << >>,
               off_scene |-> << >>, on_scene |-> << >>, arg |-> Bill(0)]

Snapshot(arg) ==
    [active_effects |-> active_effects, n |-> n_active_effects,
     observers |-> observers, off_scene |-> off_scene,
     on_scene |-> on_scene, arg |-> arg]

\* No KDE object is under construction.
NoKDE == [stage |-> "none"]

\* No module-level function is run alone.
NoCall == [fn |-> "none"]

\* The host has the one manager of the variables above.
NoManagers == << >>

\* No add is followed.
NoAdd == [manager |-> 0]

\* The state of the off-screen window as the toolkit leaves it, and after
\* gl_disable_depth and gl_set_additive_blending.
GLDefault == "default"
GLAdditiveNoDepth == "additive_nodepth"

\* Texture objects are named by numbers; an object no actor holds any more
\* gives its name back.
TextureIds == 1..(2 * MaxEffects)

\* Texture(): an object that is none of the objects the actors hold.
NewTexture(held) ==
    CHOOSE t \in TextureIds :
        /\ t \notin {x.tex : x \in held}
        /\ \A u \in TextureIds : u < t => u \in {x.tex : x \in held}

\* A SetTexture that sets one module-wide Texture object.
SetTexture_Shared(b, actor, name, e) ==
    {x \in b : ~(x.actor = actor /\ x.name = name)}
        \cup {[tex |-> 1, actor |-> actor, name |-> name, by |-> e]}

\* texture = Texture(); target_actor.GetProperty().SetTexture(name, texture)
\* run by effect e: the texture the actor held under that name is dropped.
SetTexture(b, actor, name, e) ==
    LET kept == {x \in b : ~(x.actor = actor /\ x.name = name)}
    IN kept \cup {[tex |-> NewTexture(kept), actor |-> actor,
                   name |-> name, by |-> e]}

NewEffect ==
    [state |-> "constructed", fail |-> "none", has_tb |-> FALSE,
     res |-> 0, uniform_res |-> 0, colormapTexture |-> FALSE,
     screenTexture |-> NoFrame]

\* EffectManager.__init__.  Camera parameters and window sizes are compared
\* only for equality, so the host's camera and size at construction are
\* named 1.
ManagerInit ==
    /\ n_active_effects = 0
    /\ active_effects = EmptyRegistry
    /\ off_scene = << >>
    /\ on_scene = << >>
    /\ visible = [e \in Effects |-> TRUE]
    /\ observers = << >>
    /\ next_tag = 1
    /\ on_cam = 1
    /\ off_cam = on_cam
    /\ on_size = 1
    /\ off_size = on_size
    /\ off_manager_size = on_size
    /\ off_screen_rendering = TRUE
    /\ off_frame = NoFrame
    /\ renders = 0
    /\ effect = [e \in Effects |-> NewEffect]
    /\ pc = Idle
    /\ pre = NoSnapshot
    /\ inv = << >>
    /\ invoked = << >>
    /\ bound = {}
    /\ gl = GLDefault
    /\ before_add = NoAdd

Init ==
    /\ ManagerInit
    /\ kde = NoKDE
    /\ call = NoCall
    /\ managers = NoManagers

----------------------------------------------------------------------------
\* Events of the host between handlers.

\* The user moves the on-screen camera.
MoveCamera(c) ==
    /\ pc = Idle
    /\ c # on_cam
    /\ on_cam' = c
    /\ UNCHANGED <<n_active_effects, active_effects, off_scene, on_scene,
                   visible, observers, next_tag, off_cam, on_size, off_size,
                   off_manager_size, off_screen_rendering,
                   kde, before_add, call, managers, bound, gl, renders,
                   off_frame, effect,
                   pc, pre, inv,
                   invoked>>

\* The user resizes the on-screen window.
ResizeWindow(s) ==
    /\ pc = Idle
    /\ s # on_size
    /\ on_size' = s
    /\ UNCHANGED <<n_active_effects, active_effects, off_scene, on_scene,
                   visible, observers, next_tag, on_cam, off_cam, off_size,
                   off_manager_size, off_screen_rendering,
                   kde, before_add, call, managers, bound, gl, renders,
                   off_frame, effect,
                   pc, pre, inv,
                   invoked>>

----------------------------------------------------------------------------
\* EffectManager.add(effect), lines 210-223, and KDE.apply, lines 318-384.

\* add with the synchronous first call moved to the end.
AddOrder_CallLast ==
    <<"apply", "subscribe", "register", "count", "scene_add", "call">>

\* add with the on-screen insertion moved before the first call.
AddOrder_SceneFirst ==
    <<"apply", "scene_add", "call", "subscribe", "register", "count">>

\* The statements of add in the order of the code: lines 213, 215, 216, 219,
\* 220 and 221.
AddOrder ==
    <<"apply", "call", "subscribe", "register", "count", "scene_add">>

\* The statement of add that runs after statement `step`; "return" (line
\* 223) after the last.
AddNext(step) ==
    LET i == CHOOSE k \in 1..Len(AddOrder) : AddOrder[k] = step
    IN IF i = Len(AddOrder) THEN "return" ELSE AddOrder[i + 1]

\* add is called with an effect object not handed to add before; f is what
\* that object does (FailModes).  Effect objects are interchangeable, so they
\* are numbered in the order in which they are handed to add.  Line 211
\* builds the callback.
AddCall(e, f) ==
    /\ pc = Idle
    /\ effect[e].state = "constructed"
    /\ \A d \in 1..(e - 1) : effect[d].state # "constructed"
    /\ effect' = [effect EXCEPT ![e].fail = f]
    /\ pc' = At("add", AddOrder[1], e, 0, 0)
    /\ pre' = Snapshot(TexturedBillboard(e))
    /\ UNCHANGED <<n_active_effects, active_effects, off_scene, on_scene,
                   visible, observers, next_tag, on_cam, off_cam, on_size,
                   off_size, off_manager_size, off_screen_rendering,
                   kde, before_add, call, managers, bound, gl, renders,
                   off_frame, inv,
                   invoked>>

\* Visibility flags after lines 334-335 of apply.
HideLast(vis, scene, n) ==
    IF n > 0
    THEN [vis EXCEPT ![GetLastActor(scene).eff] = FALSE]
    ELSE vis

\* effect.apply(self) undoing lines 334-336 when create_colormap raises.
Apply_RolledBack ==
    /\ pc.op = "add" /\ pc.step = "apply"
    /\ gl' = GLAdditiveNoDepth
    /\ LET e == pc.eff IN
       IF n_active_effects > 0 /\ off_scene = << >>
       THEN /\ pc' = Raised(pc, "AttributeError")
            /\ effect' = [effect EXCEPT ![e].state = "failed"]
            /\ UNCHANGED <<visible, off_scene, bound>>
       ELSE IF effect[e].fail = "colormap"
            THEN /\ effect' = [effect EXCEPT ![e] =
                        [@ EXCEPT !.has_tb = TRUE,
                                  !.res = off_manager_size,
                                  !.uniform_res = off_manager_size,
                                  !.state = "failed"]]
                 /\ pc' = Raised(pc, "ValueError")
                 /\ UNCHANGED <<visible, off_scene, bound>>
            ELSE /\ visible' = HideLast(visible, off_scene, n_active_effects)
                 /\ off_scene' = SceneAdd(off_scene, Bill(e))
                 /\ bound' = SetTexture(bound, TexturedBillboard(e),
                                        "colormapTexture", e)
                 /\ effect' = [effect EXCEPT ![e] =
                        [@ EXCEPT !.has_tb = TRUE,
                                  !.res = off_manager_size,
                                  !.uniform_res = off_manager_size,
                                  !.colormapTexture = TRUE,
                                  !.state = "applied"]]
                 /\ pc' = [pc EXCEPT !.step = AddNext("apply")]
    /\ UNCHANGED <<n_active_effects, active_effects, on_scene, observers,
                   next_tag, on_cam, off_cam, on_size, off_size,
                   off_manager_size, off_screen_rendering,
                   kde, before_add, call, managers, renders, off_frame, pre,
                   inv,
                   invoked>>

\* effect.apply(self), lines 212-213: the whole of KDE.apply.  Lines 328-330
\* apply the depth and blending state to the first-pass billboard.  With an
\* unknown colormap name create_colormap raises at line 380, after the
\* first-pass billboard was inserted and the second-pass billboard was built;
\* otherwise colormap_to_texture (line 384) sets a new Texture object as the
\* "colormapTexture" of the second-pass billboard.
Apply ==
    /\ pc.op = "add" /\ pc.step = "apply"
    /\ gl' = GLAdditiveNoDepth
    /\ LET e == pc.eff IN
       IF n_active_effects > 0 /\ off_scene = << >>
       THEN /\ pc' = Raised(pc, "AttributeError")
            /\ effect' = [effect EXCEPT ![e].state = "failed"]
            /\ UNCHANGED <<visible, off_scene, bound>>
       ELSE /\ visible' = HideLast(visible, off_scene, n_active_effects)
            /\ off_scene' = SceneAdd(off_scene, Bill(e))
            /\ IF effect[e].fail = "colormap"
               THEN /\ effect' = [effect EXCEPT ![e] =
                           [@ EXCEPT !.has_tb = TRUE,
                                     !.res = off_manager_size,
                                     !.uniform_res = off_manager_size,
                                     !.state = "failed"]]
                    /\ pc' = Raised(pc, "ValueError")
                    /\ UNCHANGED bound
               ELSE /\ bound' = SetTexture(bound, TexturedBillboard(e),
                                           "colormapTexture", e)
                    /\ effect' = [effect EXCEPT ![e] =
                           [@ EXCEPT !.has_tb = TRUE,
                                     !.res = off_manager_size,
                                     !.uniform_res = off_manager_size,
                                     !.colormapTexture = TRUE,
                                     !.state = "applied"]]
                    /\ pc' = [pc EXCEPT !.step = AddNext("apply")]
    /\ UNCHANGED <<n_active_effects, active_effects, on_scene, observers,
                   next_tag, on_cam, off_cam, on_size, off_size,
                   off_manager_size, off_screen_rendering,
                   kde, before_add, call, managers, renders, off_frame, pre,
                   inv, invoked>>

\* Line 216 subscribing the callback a second time.
Subscribe_Twice ==
    /\ pc.op = "add" /\ pc.step = "subscribe"
    /\ observers' = add_iren_callback(
                        add_iren_callback(observers, next_tag, pc.eff),
                        next_tag + 1, pc.eff)
    /\ next_tag' = next_tag + 2
    /\ pc' = [pc EXCEPT !.step = AddNext("subscribe"), !.local = next_tag]
    /\ UNCHANGED <<n_active_effects, active_effects, off_scene, on_scene,
                   visible, on_cam, off_cam, on_size, off_size,
                   off_manager_size, off_screen_rendering,
                   kde, before_add, call, managers, bound, gl, renders,
                   off_frame, effect,
                   pre, inv, invoked>>

\* Line 216 putting the callback in front of the earlier observers.
Subscribe_First ==
    /\ pc.op = "add" /\ pc.step = "subscribe"
    /\ observers' = <<[id |-> next_tag, cb |-> pc.eff]>> \o observers
    /\ next_tag' = next_tag + 1
    /\ pc' = [pc EXCEPT !.step = AddNext("subscribe"), !.local = next_tag]
    /\ UNCHANGED <<n_active_effects, active_effects, off_scene, on_scene,
                   visible, on_cam, off_cam, on_size, off_size,
                   off_manager_size, off_screen_rendering,
                   kde, before_add, call, managers, bound, gl, renders,
                   off_frame, effect,
                   pre, inv, invoked>>

\* Line 216: callback_id = on_manager.add_iren_callback(callback, "RenderEvent")
Subscribe ==
    /\ pc.op = "add" /\ pc.step = "subscribe"
    /\ observers' = add_iren_callback(observers, next_tag, pc.eff)
    /\ next_tag' = next_tag + 1
    /\ pc' = [pc EXCEPT !.step = AddNext("subscribe"), !.local = next_tag]
    /\ UNCHANGED <<n_active_effects, active_effects, off_scene, on_scene,
                   visible, on_cam, off_cam, on_size, off_size,
                   off_manager_size, off_screen_rendering,
                   kde, before_add, call, managers, bound, gl, renders,
                   off_frame, effect,
                   pre, inv, invoked>>

\* Line 219: self._active_effects[effect.textured_billboard] = (callback_id, effect.bill)
Register ==
    /\ pc.op = "add" /\ pc.step = "register"
    /\ active_effects' = RegistryPut(active_effects, TexturedBillboard(pc.eff),
                             [callback_id |-> pc.local, bill |-> Bill(pc.eff)])
    /\ pc' = [pc EXCEPT !.step = AddNext("register")]
    /\ UNCHANGED <<n_active_effects, off_scene, on_scene, visible, observers,
                   next_tag, on_cam, off_cam, on_size, off_size,
                   off_manager_size, off_screen_rendering,
                   kde, before_add, call, managers, bound, gl, renders,
                   off_frame, effect,
                   pre, inv, invoked>>

\* add without line 220.
Count_Skipped ==
    /\ pc.op = "add" /\ pc.step = "count"
    /\ pc' = [pc EXCEPT !.step = AddNext("count")]
    /\ UNCHANGED <<n_active_effects, active_effects, off_scene, on_scene,
                   visible, observers, next_tag, on_cam, off_cam, on_size,
                   off_size, off_manager_size, off_screen_rendering,
                   kde, before_add, call, managers, bound, gl, renders,
                   off_frame, effect,
                   pre, inv, invoked>>

\* Line 220: self._n_active_effects += 1
Count ==
    /\ pc.op = "add" /\ pc.step = "count"
    /\ n_active_effects' = n_active_effects + 1
    /\ pc' = [pc EXCEPT !.step = AddNext("count")]
    /\ UNCHANGED <<active_effects, off_scene, on_scene, visible, observers,
                   next_tag, on_cam, off_cam, on_size, off_size,
                   off_manager_size, off_screen_rendering,
                   kde, before_add, call, managers, bound, gl, renders,
                   off_frame, effect,
                   pre, inv, invoked>>

\* add without line 221.
AddToScene_NotInserted ==
    /\ pc.op = "add" /\ pc.step = "scene_add"
    /\ pc' = [pc EXCEPT !.step = AddNext("scene_add")]
    /\ UNCHANGED <<n_active_effects, active_effects, off_scene, on_scene,
                   visible, observers, next_tag, on_cam, off_cam, on_size,
                   off_size, off_manager_size, off_screen_rendering,
                   kde, before_add, call, managers, bound, gl, renders,
                   off_frame, effect,
                   pre, inv,
                   invoked>>

\* Lines 221-223: self.on_manager.scene.add(effect.textured_billboard), then
\* the handle is returned.
AddToScene ==
    /\ pc.op = "add" /\ pc.step = "scene_add"
    /\ on_scene' = SceneAdd(on_scene, TexturedBillboard(pc.eff))
    /\ pc' = [pc EXCEPT !.step = AddNext("scene_add")]
    /\ UNCHANGED <<n_active_effects, active_effects, off_scene, visible,
                   observers, next_tag, on_cam, off_cam, on_size, off_size,
                   off_manager_size, off_screen_rendering,
                   kde, before_add, call, managers, bound, gl, renders,
                   off_frame, effect,
                   pre, inv, invoked>>

----------------------------------------------------------------------------
\* KDE.__call__, lines 386-409: the per-frame callback.  It runs inside add
\* (line 215) and inside the host's render event.

\* KDE.__call__ rendering off screen before the camera is copied.
CallbackOrder_RenderFirst ==
    <<"render", "camera", "size", "uniform", "state", "rebind">>

\* The statements of KDE.__call__ in the order of the code.
CallbackOrder ==
    <<"camera", "size", "uniform", "state", "render", "rebind">>

\* The statement that runs after statement `step`; "called" after the last.
NextStatement(step) ==
    LET i == CHOOSE k \in 1..Len(CallbackOrder) : CallbackOrder[k] = step
    IN IF i = Len(CallbackOrder) THEN "called" ELSE CallbackOrder[i + 1]

InCallback == pc.op \in {"add", "frame"} /\ pc.step \in Range(CallbackOrder)

Advance == [pc EXCEPT !.step = NextStatement(pc.step)]

\* The callback is entered: callback() at line 215, or the observer is
\* invoked by the render event.  An effect object whose __call__ raises
\* fails here.
Call ==
    /\ pc.op \in {"add", "frame"} /\ pc.step = "call"
    /\ inv' = << >>
    /\ IF effect[pc.eff].fail = "call"
       THEN /\ pc' = Raised(pc, "RuntimeError")
            /\ effect' = IF pc.op = "add"
                         THEN [effect EXCEPT ![pc.eff].state = "failed"]
                         ELSE effect
       ELSE /\ pc' = [pc EXCEPT !.step = CallbackOrder[1]]
            /\ UNCHANGED effect
    /\ UNCHANGED <<n_active_effects, active_effects, off_scene, on_scene,
                   visible, observers, next_tag, on_cam, off_cam, on_size,
                   off_size, off_manager_size, off_screen_rendering,
                   kde, before_add, call, managers, bound, gl, renders,
                   off_frame, pre,
                   invoked>>

\* Lines 394-395: the on-screen camera is copied to the off-screen scene.
CopyCamera ==
    /\ InCallback /\ pc.step = "camera"
    /\ off_cam' = on_cam
    /\ inv' = Append(inv, "camera")
    /\ pc' = Advance
    /\ UNCHANGED <<n_active_effects, active_effects, off_scene, on_scene,
                   visible, observers, next_tag, on_cam, on_size, off_size,
                   off_manager_size, off_screen_rendering,
                   kde, before_add, call, managers, bound, gl, renders,
                   off_frame, effect,
                   pre, invoked>>

\* Lines 396-397 taking the size the off-screen manager was built with.
SetSize_Stale ==
    /\ InCallback /\ pc.step = "size"
    /\ effect' = [effect EXCEPT ![pc.eff].res = off_manager_size]
    /\ off_size' = off_manager_size
    /\ inv' = Append(inv, "size")
    /\ pc' = Advance
    /\ UNCHANGED <<n_active_effects, active_effects, off_scene, on_scene,
                   visible, observers, next_tag, on_cam, off_cam, on_size,
                   off_manager_size, off_screen_rendering,
                   kde, before_add, call, managers, bound, gl, renders,
                   off_frame, pre, invoked>>

\* Lines 396-397: self.res takes the on-screen window size and the off-screen
\* window is resized to it.
SetSize ==
    /\ InCallback /\ pc.step = "size"
    /\ effect' = [effect EXCEPT ![pc.eff].res = on_size]
    /\ off_size' = on_size
    /\ inv' = Append(inv, "size")
    /\ pc' = Advance
    /\ UNCHANGED <<n_active_effects, active_effects, off_scene, on_scene,
                   visible, observers, next_tag, on_cam, off_cam, on_size,
                   off_manager_size, off_screen_rendering,
                   kde, before_add, call, managers, bound, gl, renders,
                   off_frame, pre,
                   invoked>>

\* Line 398 setting the "res" uniform of every second-pass billboard.
SetUniform_EveryBillboard ==
    /\ InCallback /\ pc.step = "uniform"
    /\ effect' = [e \in Effects |->
                     IF effect[e].has_tb
                     THEN [effect[e] EXCEPT !.uniform_res = effect[pc.eff].res]
                     ELSE effect[e]]
    /\ inv' = Append(inv, "uniform")
    /\ pc' = Advance
    /\ UNCHANGED <<n_active_effects, active_effects, off_scene, on_scene,
                   visible, observers, next_tag, on_cam, off_cam, on_size,
                   off_size, off_manager_size, off_screen_rendering,
                   kde, before_add, call, managers, bound, gl, renders,
                   off_frame, pre, invoked>>

\* Line 398: the "res" uniform of the second-pass billboard is set to self.res.
SetUniform ==
    /\ InCallback /\ pc.step = "uniform"
    /\ effect' = [effect EXCEPT ![pc.eff].uniform_res = effect[pc.eff].res]
    /\ inv' = Append(inv, "uniform")
    /\ pc' = Advance
    /\ UNCHANGED <<n_active_effects, active_effects, off_scene, on_scene,
                   visible, observers, next_tag, on_cam, off_cam, on_size,
                   off_size, off_manager_size, off_screen_rendering,
                   kde, before_add, call, managers, bound, gl, renders,
                   off_frame, pre,
                   invoked>>

\* Lines 399-401 without lines 400-401.
ApplyState_NotApplied ==
    /\ InCallback /\ pc.step = "state"
    /\ inv' = Append(inv, "state")
    /\ pc' = Advance
    /\ UNCHANGED <<n_active_effects, active_effects, off_scene, on_scene,
                   visible, observers, next_tag, on_cam, off_cam, on_size,
                   off_size, off_manager_size, off_screen_rendering,
                   kde, before_add, call, managers, bound, gl, renders,
                   off_frame, effect,
                   pre, invoked>>

\* Lines 399-401 followed by self.bill.SetVisibility(True).
ApplyState_ShowOwn ==
    /\ InCallback /\ pc.step = "state"
    /\ gl' = GLAdditiveNoDepth
    /\ visible' = [visible EXCEPT ![pc.eff] = TRUE]
    /\ inv' = Append(inv, "state")
    /\ pc' = Advance
    /\ UNCHANGED <<n_active_effects, active_effects, off_scene, on_scene,
                   observers, next_tag, on_cam, off_cam, on_size,
                   off_size, off_manager_size, off_screen_rendering,
                   kde, before_add, call, managers, bound, renders, off_frame,
                   effect,
                   pre, invoked>>

\* Lines 399-401: the scene is marked modified and the depth and blending
\* state is applied to the first-pass billboard again.
ApplyState ==
    /\ InCallback /\ pc.step = "state"
    /\ gl' = GLAdditiveNoDepth
    /\ inv' = Append(inv, "state")
    /\ pc' = Advance
    /\ UNCHANGED <<n_active_effects, active_effects, off_scene, on_scene,
                   visible, observers, next_tag, on_cam, off_cam, on_size,
                   off_size, off_manager_size, off_screen_rendering,
                   kde, before_add, call, managers, bound, renders, off_frame,
                   effect, pre,
                   invoked>>

\* The first-pass billboards the off-screen scene draws.
Drawn == {a.eff : a \in {x \in Range(off_scene) : visible[x.eff]}}

\* Line 402: off_manager.render()
OffRender ==
    /\ InCallback /\ pc.step = "render"
    /\ off_frame' = [cam |-> off_cam, size |-> off_size]
    /\ renders' = renders + 1
    /\ inv' = Append(inv, "render")
    /\ pc' = Advance
    /\ UNCHANGED <<n_active_effects, active_effects, off_scene, on_scene,
                   visible, observers, next_tag, on_cam, off_cam, on_size,
                   off_size, off_manager_size, off_screen_rendering,
                   kde, before_add, call, managers, bound, gl, effect, pre,
                   invoked>>

\* Lines 404-409: the off-screen window is captured and bound as the
\* "screenTexture" of the second-pass billboard.
Rebind ==
    /\ InCallback /\ pc.step = "rebind"
    /\ effect' = [effect EXCEPT ![pc.eff].screenTexture = off_frame]
    /\ bound' = SetTexture(bound, TexturedBillboard(pc.eff),
                           "screenTexture", pc.eff)
    /\ inv' = Append(inv, "rebind")
    /\ pc' = Advance
    /\ UNCHANGED <<n_active_effects, active_effects, off_scene, on_scene,
                   visible, observers, next_tag, on_cam, off_cam, on_size,
                   off_size, off_manager_size, off_screen_rendering,
                   kde, before_add, call, managers, gl, renders, off_frame,
                   pre, invoked>>

\* The callback returns: to line 216 of add, or to the render event, which
\* goes on with the next observer.
Called ==
    /\ pc.op \in {"add", "frame"} /\ pc.step = "called"
    /\ invoked' = Append(invoked, pc.eff)
    /\ pc' = IF pc.op = "add"
             THEN [pc EXCEPT !.step = AddNext("call")]
             ELSE [pc EXCEPT !.step = "dispatch", !.idx = pc.idx + 1,
                             !.eff = 0]
    /\ UNCHANGED <<n_active_effects, active_effects, off_scene, on_scene,
                   visible, observers, next_tag, on_cam, off_cam, on_size,
                   off_size, off_manager_size, off_screen_rendering,
                   kde, before_add, call, managers, bound, gl, renders,
                   off_frame, effect,
                   pre, inv>>

----------------------------------------------------------------------------
\* The host displays a frame: the render event invokes every observer, then
\* the on-screen scene is drawn.

HostRender ==
    /\ pc = Idle
    /\ pc' = At("frame", "dispatch", 0, 1, 0)
    /\ pre' = Snapshot(Bill(0))
    /\ invoked' = << >>
    /\ UNCHANGED <<n_active_effects, active_effects, off_scene, on_scene,
                   visible, observers, next_tag, on_cam, off_cam, on_size,
                   off_size, off_manager_size, off_screen_rendering,
                   kde, before_add, call, managers, bound, gl, renders,
                   off_frame, effect,
                   inv>>

\* The observer the render event invokes at position i of its list.
ObserverAt(obs, i) == obs[i]

Dispatch ==
    /\ pc.op = "frame" /\ pc.step = "dispatch"
    /\ pc' = IF pc.idx <= Len(observers)
             THEN [pc EXCEPT !.step = "call",
                             !.eff = ObserverAt(observers, pc.idx).cb]
             ELSE [pc EXCEPT !.step = "draw"]
    /\ UNCHANGED <<n_active_effects, active_effects, off_scene, on_scene,
                   visible, observers, next_tag, on_cam, off_cam, on_size,
                   off_size, off_manager_size, off_screen_rendering,
                   kde, before_add, call, managers, bound, gl, renders,
                   off_frame, effect,
                   pre, inv,
                   invoked>>

\* The on-screen scene is drawn with the textures bound at that moment.
Draw ==
    /\ pc.op = "frame" /\ pc.step = "draw"
    /\ pc' = [pc EXCEPT !.step = "return"]
    /\ UNCHANGED <<n_active_effects, active_effects, off_scene, on_scene,
                   visible, observers, next_tag, on_cam, off_cam, on_size,
                   off_size, off_manager_size, off_screen_rendering,
                   kde, before_add, call, managers, bound, gl, renders,
                   off_frame, effect,
                   pre, inv,
                   invoked>>

----------------------------------------------------------------------------
\* EffectManager.remove_effect(effect_actor), lines 225-242.

\* Lines 236-240 without line 236.
RemoveRegistered_KeepObserver(h) ==
    /\ observers' = observers
    /\ off_scene' = RemoveActor(off_scene, active_effects[h].bill)
    /\ on_scene' = RemoveActor(on_scene, h)
    /\ active_effects' = RegistryPop(active_effects, h)
    /\ n_active_effects' = n_active_effects - 1

\* Lines 236-240 without line 238.
RemoveRegistered_KeepActor(h) ==
    /\ observers' = RemoveObserver(observers, active_effects[h].callback_id)
    /\ off_scene' = RemoveActor(off_scene, active_effects[h].bill)
    /\ on_scene' = on_scene
    /\ active_effects' = RegistryPop(active_effects, h)
    /\ n_active_effects' = n_active_effects - 1

\* Lines 236-240, for a handle that is a key of the registry.
RemoveRegistered(h) ==
    /\ observers' = RemoveObserver(observers, active_effects[h].callback_id)
    /\ off_scene' = RemoveActor(off_scene, active_effects[h].bill)
    /\ on_scene' = RemoveActor(on_scene, h)
    /\ active_effects' = RegistryPop(active_effects, h)
    /\ n_active_effects' = n_active_effects - 1

\* Line 235 with the comparison off by one.
HasActiveEffects_OffByOne(n) == n >= 0

\* Line 235: if self._n_active_effects > 0
HasActiveEffects(n) == n > 0

\* remove_effect testing the handle's membership together with line 235.
RemoveEffect_MembershipTest(h) ==
    /\ pc = Idle
    /\ effect[h.eff].has_tb
    /\ pre' = Snapshot(h)
    /\ IF HasActiveEffects(n_active_effects) /\ h \in DOMAIN active_effects
       THEN /\ RemoveRegistered(h)
            /\ effect' = [effect EXCEPT ![h.eff].state = "removed"]
            /\ pc' = At("remove_effect", "return", h.eff, 0, 0)
       ELSE /\ pc' = Raised(At("remove_effect", "check", h.eff, 0, 0),
                            "IndexError")
            /\ UNCHANGED <<observers, off_scene, on_scene, active_effects,
                           n_active_effects, effect>>
    /\ UNCHANGED <<visible, next_tag, on_cam, off_cam, on_size, off_size,
                   off_manager_size, off_screen_rendering,
                   kde, before_add, call, managers, bound, gl, renders,
                   off_frame, inv,
                   invoked>>

\* The handle is the textured_billboard attribute of an effect that has one.
RemoveEffect(h) ==
    /\ pc = Idle
    /\ effect[h.eff].has_tb
    /\ pre' = Snapshot(h)
    /\ IF HasActiveEffects(n_active_effects)
       THEN IF h \in DOMAIN active_effects
            THEN /\ RemoveRegistered(h)
                 /\ effect' = [effect EXCEPT ![h.eff].state = "removed"]
                 /\ pc' = At("remove_effect", "return", h.eff, 0, 0)
            ELSE /\ pc' = Raised(At("remove_effect", "lookup", h.eff, 0, 0),
                                 "KeyError")
                 /\ UNCHANGED <<observers, off_scene, on_scene,
                                active_effects, n_active_effects, effect>>
       ELSE /\ pc' = Raised(At("remove_effect", "check", h.eff, 0, 0),
                            "IndexError")
            /\ UNCHANGED <<observers, off_scene, on_scene, active_effects,
                           n_active_effects, effect>>
    /\ UNCHANGED <<visible, next_tag, on_cam, off_cam, on_size, off_size,
                   off_manager_size, off_screen_rendering,
                   kde, before_add, call, managers, bound, gl, renders,
                   off_frame, inv,
                   invoked>>

----------------------------------------------------------------------------
\* The running handler returns, or its exception reaches the caller.
Return ==
    /\ pc.step \in {"return", "raised"}
    /\ pc' = Idle
    /\ pre' = NoSnapshot
    /\ inv' = << >>
    /\ invoked' = << >>
    /\ effect' = IF pc.op = "add" /\ pc.step = "return"
                 THEN [effect EXCEPT ![pc.eff].state = "active"]
                 ELSE effect
    /\ renders' = 0
    /\ UNCHANGED <<n_active_effects, active_effects, off_scene, on_scene,
                   visible, observers, next_tag, on_cam, off_cam, on_size,
                   off_size, off_manager_size, off_screen_rendering,
                   kde, before_add, call, managers, bound, gl, off_frame>>

Next ==
    \/ \E c \in Cams : MoveCamera(c)
    \/ \E s \in Sizes : ResizeWindow(s)
    \/ \E e \in Effects, f \in FailModes : AddCall(e, f)
    \/ Apply
    \/ Call
    \/ CopyCamera
    \/ SetSize
    \/ SetUniform
    \/ ApplyState
    \/ OffRender
    \/ Rebind
    \/ Called
    \/ Subscribe
    \/ Register
    \/ Count
    \/ AddToScene
    \/ HostRender
    \/ Dispatch
    \/ Draw
    \/ \E h \in Handles : RemoveEffect(h)
    \/ Return

Spec == Init /\ [][Next]_vars

----------------------------------------------------------------------------
\* The manager under a toolkit that puts the depth and blending state of the
\* off-screen window back to its default between handlers.  The camera and
\* the window size stay as at construction.

ToolkitReset ==
    /\ pc = Idle
    /\ gl = GLAdditiveNoDepth
    /\ gl' = GLDefault
    /\ UNCHANGED <<n_active_effects, active_effects, off_scene, on_scene,
                   visible, observers, next_tag, on_cam, off_cam, on_size,
                   off_size, off_manager_size, off_screen_rendering,
                   kde, before_add, call, managers, bound, renders, off_frame,
                   effect,
                   pc, pre, inv, invoked>>

NextGL ==
    \/ ToolkitReset
    \/ \E e \in Effects, f \in FailModes : AddCall(e, f)
    \/ Apply
    \/ Call
    \/ CopyCamera
    \/ SetSize
    \/ SetUniform
    \/ ApplyState
    \/ OffRender
    \/ Rebind
    \/ Called
    \/ Subscribe
    \/ Register
    \/ Count
    \/ AddToScene
    \/ HostRender
    \/ Dispatch
    \/ Draw
    \/ \E h \in Handles : RemoveEffect(h)
    \/ Return

SpecGL == Init /\ [][NextGL]_vars

----------------------------------------------------------------------------
\* Two EffectManager objects built on one host.  Each has the attributes
\* __init__ gives it (off_manager with its scene, camera and window,
\* _n_active_effects, _active_effects); the host's scene and interactor are
\* shared.  Handlers run from call to return in one step, and an exception
\* is not recorded.

Managers == {1, 2}

\* callback = partial(effect, effect_manager=self), line 211
Partial(e, m) == [effect |-> e, effect_manager |-> m]

\* EffectManager.__init__, lines 198-208
NewManager ==
    [n_active_effects |-> 0, active_effects |-> EmptyRegistry,
     off_scene |-> << >>, visible |-> [e \in Effects |-> TRUE],
     off_cam |-> on_cam, off_size |-> on_size]

\* Lines 334-336 of apply run for manager m
Applied(ms, m, e) ==
    [ms EXCEPT ![m].visible = HideLast(@, ms[m].off_scene,
                                       ms[m].n_active_effects),
               ![m].off_scene = SceneAdd(@, Bill(e))]

\* Lines 394-397 of the callback bound to manager m
CalledBack(ms, m) ==
    [ms EXCEPT ![m].off_cam = on_cam, ![m].off_size = on_size]

\* Lines 219-220 with _active_effects an attribute of the class.
Registered_ClassAttribute(ms, m, h, v) ==
    [k \in DOMAIN ms |->
        [ms[k] EXCEPT !.active_effects = RegistryPut(@, h, v),
                      !.n_active_effects = IF k = m THEN @ + 1 ELSE @]]

\* Lines 219-220 run for manager m
Registered(ms, m, h, v) ==
    [ms EXCEPT ![m].active_effects = RegistryPut(@, h, v),
               ![m].n_active_effects = @ + 1]

\* Lines 239 and 240 run for manager m, without line 237.
Unregistered_KeepBill(ms, m, h) ==
    [ms EXCEPT ![m].active_effects = RegistryPop(@, h),
               ![m].n_active_effects = @ - 1]

\* Lines 237, 239 and 240 run for manager m
Unregistered(ms, m, h) ==
    [ms EXCEPT ![m].off_scene = RemoveActor(@, ms[m].active_effects[h].bill),
               ![m].active_effects = RegistryPop(@, h),
               ![m].n_active_effects = @ - 1]

\* What add of manager m finds and what it returns (line 223).
FoundByAdd(m, handle) ==
    [manager |-> m, returned |-> handle, removed |-> FALSE,
     active_effects |-> managers[m].active_effects,
     n_active_effects |-> managers[m].n_active_effects,
     off_scene |-> managers[m].off_scene,
     observers |-> observers, on_scene |-> on_scene]

\* managers[m].add(effect e), lines 210-223, for an effect object not handed
\* to add before.
AddTo(m, e, f) ==
    /\ pc = Idle
    /\ effect[e].state = "constructed"
    /\ \A d \in 1..(e - 1) : effect[d].state # "constructed"
    /\ IF managers[m].n_active_effects > 0 /\ managers[m].off_scene = << >>
       THEN /\ effect' = [effect EXCEPT ![e].state = "failed", ![e].fail = f]
            /\ before_add' = NoAdd
            /\ UNCHANGED <<managers, observers, next_tag, on_scene>>
       ELSE IF f # "none"
            THEN /\ managers' = Applied(managers, m, e)
                 /\ before_add' = NoAdd
                 /\ effect' = [effect EXCEPT ![e].state = "failed",
                                             ![e].fail = f,
                                             ![e].has_tb = TRUE]
                 /\ UNCHANGED <<observers, next_tag, on_scene>>
            ELSE /\ managers' =
                        Registered(CalledBack(Applied(managers, m, e), m),
                                   m, TexturedBillboard(e),
                                   [callback_id |-> next_tag,
                                    bill |-> Bill(e)])
                 /\ observers' = add_iren_callback(observers, next_tag,
                                                   Partial(e, m))
                 /\ next_tag' = next_tag + 1
                 /\ on_scene' = SceneAdd(on_scene, TexturedBillboard(e))
                 /\ before_add' = FoundByAdd(m, TexturedBillboard(e))
                 /\ effect' = [effect EXCEPT ![e].state = "active",
                                             ![e].fail = f,
                                             ![e].has_tb = TRUE]
    /\ UNCHANGED <<n_active_effects, active_effects, off_scene, visible,
                   on_cam, off_cam, on_size, off_size, off_manager_size,
                   off_screen_rendering, kde, call, bound, gl, renders,
                   off_frame, pc, pre, inv, invoked>>

\* managers[m].remove_effect(h), lines 235-242
RemoveFrom(m, h) ==
    /\ pc = Idle
    /\ effect[h.eff].has_tb
    /\ IF /\ HasActiveEffects(managers[m].n_active_effects)
          /\ h \in DOMAIN managers[m].active_effects
       THEN /\ observers' = RemoveObserver(observers,
                                managers[m].active_effects[h].callback_id)
            /\ on_scene' = RemoveActor(on_scene, h)
            /\ managers' = Unregistered(managers, m, h)
            /\ effect' = [effect EXCEPT ![h.eff].state = "removed"]
            /\ before_add' =
                   IF /\ before_add.manager = m
                      /\ before_add.returned = h
                      /\ ~before_add.removed
                   THEN [before_add EXCEPT !.removed = TRUE]
                   ELSE NoAdd
       ELSE UNCHANGED <<observers, on_scene, managers, effect, before_add>>
    /\ UNCHANGED <<n_active_effects, active_effects, off_scene, visible,
                   next_tag, on_cam, off_cam, on_size, off_size,
                   off_manager_size, off_screen_rendering, kde, call, bound,
                   gl, renders, off_frame, pc, pre, inv, invoked>>

\* The render event invokes the observer at position i: KDE.__call__ with
\* the manager the callback was built with.
Invoke(i) ==
    /\ pc = Idle
    /\ i <= Len(observers)
    /\ managers' = CalledBack(managers,
                           ObserverAt(observers, i).cb.effect_manager)
    /\ UNCHANGED <<n_active_effects, active_effects, off_scene, on_scene,
                   visible, observers, next_tag, on_cam, off_cam, on_size,
                   off_size, off_manager_size, off_screen_rendering, kde,
                   before_add,
                   call, bound, gl, renders, off_frame, effect, pc, pre,
                   inv, invoked>>

InitTwo ==
    /\ ManagerInit
    /\ kde = NoKDE
    /\ call = NoCall
    /\ managers = [m \in Managers |-> NewManager]

NextTwo ==
    \/ \E c \in Cams : MoveCamera(c)
    \/ \E m \in Managers, e \in Effects, f \in FailModes : AddTo(m, e, f)
    \/ \E m \in Managers, h \in Handles : RemoveFrom(m, h)
    \/ \E i \in 1..MaxEffects : Invoke(i)

SpecTwo == InitTwo /\ [][NextTwo]_vars

----------------------------------------------------------------------------
\* EffectManager.__init__, lines 198-208, run for a host in any camera and
\* size.

\* The registry attribute before __init__ has set it.
UnsetRegistry == [h \in {Bill(0)} |-> [callback_id |-> 0, bill |-> Bill(0)]]

\* The host is shown with some camera and size; no EffectManager exists yet.
InitHost ==
    /\ on_cam \in Cams
    /\ on_size \in Sizes
    /\ on_scene = << >>
    /\ observers = << >>
    /\ next_tag = 1
    /\ n_active_effects = -1
    /\ active_effects = UnsetRegistry
    /\ off_scene = << >>
    /\ off_cam = 0
    /\ off_size = 0
    /\ off_manager_size = 0
    /\ off_screen_rendering = FALSE
    /\ off_frame = NoFrame
    /\ visible = [e \in Effects |-> TRUE]
    /\ effect = [e \in Effects |-> NewEffect]
    /\ kde = NoKDE
    /\ call = NoCall
    /\ managers = NoManagers
    /\ bound = {}
    /\ gl = GLDefault
    /\ before_add = NoAdd
    /\ renders = 0
    /\ pc = At("construct", "init", 0, 0, 0)
    /\ pre = NoSnapshot
    /\ inv = << >>
    /\ invoked = << >>

\* __init__ without lines 200-201.
Construct_NoCamera ==
    /\ pc.op = "construct" /\ pc.step = "init"
    /\ off_scene' = << >>
    /\ off_cam' = off_cam
    /\ off_manager_size' = on_size
    /\ off_size' = on_size
    /\ off_screen_rendering' = TRUE
    /\ n_active_effects' = 0
    /\ active_effects' = EmptyRegistry
    /\ pc' = [pc EXCEPT !.step = "return"]
    /\ UNCHANGED <<on_scene, visible, observers, next_tag, on_cam, on_size,
                   kde, before_add, call, managers, bound, gl, renders,
                   off_frame, effect,
                   pre, inv, invoked>>

\* EffectManager(manager): a new scene with the host's camera (199-201), an
\* off-screen show manager of the host's size (203-204) in off-screen
\* rendering mode (205-206), counter 0 and an empty registry (207-208).
Construct ==
    /\ pc.op = "construct" /\ pc.step = "init"
    /\ off_scene' = << >>
    /\ off_cam' = on_cam
    /\ off_manager_size' = on_size
    /\ off_size' = on_size
    /\ off_screen_rendering' = TRUE
    /\ n_active_effects' = 0
    /\ active_effects' = EmptyRegistry
    /\ pc' = [pc EXCEPT !.step = "return"]
    /\ UNCHANGED <<on_scene, visible, observers, next_tag, on_cam, on_size,
                   kde, before_add, call, managers, bound, gl, renders,
                   off_frame, effect,
                   pre, inv, invoked>>

\* Construction followed by adds.
NextInit ==
    \/ Construct
    \/ \E e \in Effects, f \in FailModes : AddCall(e, f)
    \/ Apply
    \/ Call
    \/ CopyCamera
    \/ SetSize
    \/ SetUniform
    \/ ApplyState
    \/ OffRender
    \/ Rebind
    \/ Called
    \/ Subscribe
    \/ Register
    \/ Count
    \/ AddToScene
    \/ Return

SpecInit == InitHost /\ [][NextInit]_vars

----------------------------------------------------------------------------
\* KDE.__init__, lines 245-315, and the sizes computed by KDE.apply, lines
\* 318-348, run alone on one KDE object.  Lengths are whole numbers of one
\* unit; the centroid and what is derived from it are kept multiplied by the
\* number of points, so that the average is exact.

MaxPoints == 2
MaxLen == 2

\* Coordinates of the points and values of the bandwidth argument.
Coords == {-50, 0, 1}
BwValues == {-1, 0, 1, 2}

\* scales = 2*3.0*np.copy(bandwidths), line 302
ScaleFactor == 6

\* max_bandwidth = 2*4.0*np.max(bandwidths), line 339
MarginFactor == 8

SeqsUpTo(S, n) == UNION {[1..k -> S] : k \in 1..n}

Min(S) == CHOOSE x \in S : \A y \in S : x <= y
Max(S) == CHOOSE x \in S : \A y \in S : x >= y

RECURSIVE Sum(_)
Sum(q) == IF q = << >> THEN 0 ELSE Head(q) + Sum(Tail(q))

\* np.repeat(q, n): every entry n times, in order
Repeat(q, n) == [i \in 1..(Len(q) * n) |-> q[((i - 1) \div n) + 1]]

\* The arguments of KDE(points, bandwidths): the bandwidths are an ndarray,
\* a plain list, or a scalar (kept as a sequence of one value).
KDEInputs ==
    {[stage |-> "input", points |-> pts, kind |-> k, bandwidths |-> bw] :
        pts \in SeqsUpTo(Coords \X Coords, MaxPoints),
        k \in {"ndarray", "list"},
        bw \in SeqsUpTo(BwValues, MaxLen)}
    \cup
    {[stage |-> "input", points |-> pts, kind |-> "scalar",
      bandwidths |-> <<b>>] :
        pts \in SeqsUpTo(Coords \X Coords, MaxPoints), b \in BwValues}

\* bandwidths.shape[0] with every argument taken as an array of its entries.
Shape0_Unwrapped(k) == Len(k.bandwidths)

\* bandwidths.shape[0] after lines 258-259: anything that is not an ndarray
\* is wrapped into an array of one entry.
Shape0(k) ==
    IF k.kind = "ndarray" THEN Len(k.bandwidths) ELSE 1

\* Line 263, np.repeat(bandwidths[0], points.shape[0]): the one entry is a
\* number, or the whole list when a list was wrapped.
Broadcast(k) ==
    IF k.kind = "list"
    THEN Repeat(k.bandwidths, Len(k.points))
    ELSE Repeat(<<k.bandwidths[1]>>, Len(k.points))

\* The local bandwidths after lines 258-263, when line 261 does not raise.
LocalBandwidths(k) ==
    IF Shape0(k) = 1 THEN Broadcast(k) ELSE k.bandwidths

\* Lines 260-265 without the length check.
Validate_NoShapeCheck(k) ==
    IF Min(Range(LocalBandwidths(k))) <= 0
    THEN "ValueError"
    ELSE "none"

\* Lines 260-265 accepting a bandwidth of zero.
Validate_ZeroAccepted(k) ==
    IF Shape0(k) # 1 /\ Shape0(k) # Len(k.points)
    THEN "IndexError"
    ELSE IF Min(Range(LocalBandwidths(k))) < 0
         THEN "ValueError"
         ELSE "none"

\* The exception of lines 260-265, "none" when the arguments pass.
Validate(k) ==
    IF Shape0(k) # 1 /\ Shape0(k) # Len(k.points)
    THEN "IndexError"
    ELSE IF Min(Range(LocalBandwidths(k))) <= 0
         THEN "ValueError"
         ELSE "none"

\* Line 302 with the bare 3-sigma radius.
Scales_Radius(b) == [i \in 1..Len(b) |-> 3 * b[i]]

\* Line 302
Scales(b) == [i \in 1..Len(b) |-> ScaleFactor * b[i]]

\* Line 304, np.average(points, axis=0), times the number of points
CenterOfMassTimesN(pts) ==
    <<Sum([i \in 1..Len(pts) |-> pts[i][1]]),
      Sum([i \in 1..Len(pts) |-> pts[i][2]])>>

\* KDE.__init__: self.bandwidths keeps the argument as given (line 253); the
\* billboard is built only when validation passes.
KDEInit ==
    /\ kde.stage = "input"
    /\ kde' = IF Validate(kde) # "none"
              THEN [stage |-> "raised", points |-> kde.points,
                    kind |-> kde.kind, bandwidths |-> kde.bandwidths,
                    err |-> Validate(kde), bill |-> FALSE]
              ELSE [stage |-> "constructed", points |-> kde.points,
                    kind |-> kde.kind, bandwidths |-> kde.bandwidths,
                    err |-> "none", bill |-> TRUE,
                    scales |-> Scales(LocalBandwidths(kde)),
                    center_of_mass_n |-> CenterOfMassTimesN(kde.points)]
    /\ UNCHANGED <<n_active_effects, active_effects, off_scene, on_scene,
                   visible, observers, next_tag, on_cam, off_cam, on_size,
                   off_size, off_manager_size, off_screen_rendering,
                   call, managers, bound, gl, before_add,
                   renders, off_frame, effect, pc, pre, inv, invoked>>

\* self.bill.GetBounds(): every point's quad reaches its scale to each side.
GetBounds(pts, sc) ==
    [xmin |-> Min({pts[i][1] - sc[i] : i \in 1..Len(pts)}),
     xmax |-> Max({pts[i][1] + sc[i] : i \in 1..Len(pts)}),
     ymin |-> Min({pts[i][2] - sc[i] : i \in 1..Len(pts)}),
     ymax |-> Max({pts[i][2] + sc[i] : i \in 1..Len(pts)})]

\* Line 339, from self.bandwidths as given
MaxBandwidth(k) == MarginFactor * Max(Range(k.bandwidths))

\* Lines 341-344, times the number of points: <<x, y, 0.0>>
ActorScalesTimesN(k, bounds) ==
    LET n == Len(k.points) IN
    <<n * (bounds.xmax - bounds.xmin) + k.center_of_mass_n[1]
          + n * MaxBandwidth(k),
      n * (bounds.ymax - bounds.ymin) + k.center_of_mass_n[2]
          + n * MaxBandwidth(k),
      0>>

\* Lines 346-348: actor_scales.max() for both axes
ScaleTimesN(as) == LET m == Max(Range(as)) IN <<m, m, 0>>

\* The part of KDE.apply that uploads the attributes (331-332) and sizes the
\* second-pass billboard (338-348, 367-369), for an object whose billboard
\* has one scale per point.
KDEApply ==
    /\ kde.stage = "constructed"
    /\ Len(kde.scales) = Len(kde.points)
    /\ LET bounds == GetBounds(kde.points, kde.scales)
           as == ActorScalesTimesN(kde, bounds)
       IN kde' = [stage |-> "applied", points |-> kde.points,
                  kind |-> kde.kind, bandwidths |-> kde.bandwidths,
                  err |-> "none", bill |-> TRUE,
                  scales |-> kde.scales,
                  center_of_mass_n |-> kde.center_of_mass_n,
                  in_bandwidth |-> Repeat(kde.bandwidths, 4),
                  in_scale |-> Repeat(kde.scales, 4),
                  bill_bounds |-> bounds,
                  max_bandwidth |-> MaxBandwidth(kde),
                  actor_scales_n |-> as,
                  scale_n |-> ScaleTimesN(as),
                  textured_billboard_at_n |-> kde.center_of_mass_n]
    /\ UNCHANGED <<n_active_effects, active_effects, off_scene, on_scene,
                   visible, observers, next_tag, on_cam, off_cam, on_size,
                   off_size, off_manager_size, off_screen_rendering,
                   call, managers, bound, gl, before_add,
                   renders, off_frame, effect, pc, pre, inv, invoked>>

InitKDE ==
    /\ ManagerInit
    /\ kde \in KDEInputs
    /\ call = NoCall
    /\ managers = NoManagers

NextKDE ==
    \/ KDEInit
    \/ KDEApply

SpecKDE == InitKDE /\ [][NextKDE]_vars

----------------------------------------------------------------------------
\* The module-level functions, each run alone on its arguments: the texture
\* functions of effect_manager.py (window_to_texture, texture_to_actor) and
\* shader_custom_uniforms and normalize of docs/experimental/viz_kde_3d_att.py.

\* Names a caller may give for the pixel type, the wrap mode and the
\* blending mode.
TypeNames == {"rgb", "RGBA", "zbuffer", "depth"}
WrapNames == {"ClampToEdge", "Repeat", "MirroredRepeat", "ClampToBorder",
              "clamptoedge", "clamp-to-edge", "Mirror", ""}
BlendNames == {"None", "Replace", "Modulate", "Add", "AddSigned",
               "Interpolate", "Subtract", "add-signed", "Multiply", "mix"}

\* str.lower() on those names
Lower ==
    "rgb" :> "rgb" @@ "RGBA" :> "rgba" @@ "zbuffer" :> "zbuffer"
    @@ "depth" :> "depth"
    @@ "ClampToEdge" :> "clamptoedge" @@ "Repeat" :> "repeat"
    @@ "MirroredRepeat" :> "mirroredrepeat"
    @@ "ClampToBorder" :> "clamptoborder"
    @@ "clamptoedge" :> "clamptoedge" @@ "clamp-to-edge" :> "clamp-to-edge"
    @@ "Mirror" :> "mirror" @@ "" :> ""
    @@ "None" :> "none" @@ "Replace" :> "replace"
    @@ "Modulate" :> "modulate" @@ "Add" :> "add"
    @@ "AddSigned" :> "addsigned" @@ "Interpolate" :> "interpolate"
    @@ "Subtract" :> "subtract" @@ "add-signed" :> "add-signed"
    @@ "Multiply" :> "multiply" @@ "mix" :> "mix"

\* Lines 23-26
WRAP_MODE_DIC ==
    "clamptoedge" :> "Texture.ClampToEdge"
    @@ "repeat" :> "Texture.Repeat"
    @@ "mirroredrepeat" :> "Texture.MirroredRepeat"
    @@ "clamptoborder" :> "Texture.ClampToBorder"

\* Lines 28-31
BLENDING_MODE_DIC ==
    "none" :> 0 @@ "replace" :> 1 @@ "modulate" :> 2 @@ "add" :> 3
    @@ "addsigned" :> 4 @@ "interpolate" :> 5 @@ "subtract" :> 6

\* Lines 82-84: the keys of type_dic
type_dic == {"rgb", "rgba", "zbuffer"}

\* A lookup that falls back on the dictionary's first entry.
Lookup_Default(dic, name) ==
    IF Lower[name] \in DOMAIN dic
    THEN [err |-> "none", value |-> dic[Lower[name]]]
    ELSE [err |-> "none",
          value |-> dic[CHOOSE k \in DOMAIN dic : TRUE]]

\* dic[name.lower()], lines 91, 93, 147 and 150: KeyError for a missing key
Lookup(dic, name) ==
    IF Lower[name] \in DOMAIN dic
    THEN [err |-> "none", value |-> dic[Lower[name]]]
    ELSE [err |-> "KeyError", value |-> "none"]

\* The textures an actor handed to window_to_texture or texture_to_actor may
\* hold: none, or one under the name the call sets.
TargetActor == TexturedBillboard(1)
TextureName == "screenTexture"
TargetTextures ==
    {{}, {[tex |-> 2, actor |-> TargetActor, name |-> TextureName,
           by |-> 1]}}

\* A texture setup that hands the texture to the actor before the mode
\* lookups.
Bind_AttachFirst(c) ==
    LET wrap == Lookup(WRAP_MODE_DIC, c.wrap_mode)
        blend == Lookup(BLENDING_MODE_DIC, c.blending_mode)
        set == [c EXCEPT !.target =
                    SetTexture(c.target, TargetActor, TextureName, 1)]
    IN IF wrap.err # "none"
       THEN [set EXCEPT !.state = "raised", !.err = wrap.err,
                        !.at = "wrap_mode"]
       ELSE IF blend.err # "none"
            THEN [set EXCEPT !.state = "raised", !.err = blend.err,
                             !.at = "blending_mode"]
            ELSE [set EXCEPT !.state = "returned", !.texture_set = TRUE,
                             !.wrap = wrap.value, !.blend = blend.value]

\* The texture as it is when SetTexture hands it to the actor, or the
\* exception raised before that.
Bind(c) ==
    LET wrap == Lookup(WRAP_MODE_DIC, c.wrap_mode)
        blend == Lookup(BLENDING_MODE_DIC, c.blending_mode)
    IN IF wrap.err # "none"
       THEN [c EXCEPT !.state = "raised", !.err = wrap.err,
                      !.at = "wrap_mode"]
       ELSE IF blend.err # "none"
            THEN [c EXCEPT !.state = "raised", !.err = blend.err,
                           !.at = "blending_mode"]
            ELSE [c EXCEPT !.state = "returned", !.texture_set = TRUE,
                           !.wrap = wrap.value, !.blend = blend.value,
                           !.target = SetTexture(c.target, TargetActor,
                                                 TextureName, 1)]

TextureCalls ==
    [fn : {"window_to_texture", "texture_to_actor"}, state : {"input"},
     d_type : TypeNames, wrap_mode : WrapNames, blending_mode : BlendNames,
     err : {"none"}, at : {"none"}, texture_set : {FALSE},
     wrap : {"none"}, blend : {-1}, target_before : TargetTextures,
     target : TargetTextures]

\* window_to_texture, lines 80-95: the pixel type is looked up first.
WindowToTexture ==
    /\ call.fn = "window_to_texture" /\ call.state = "input"
    /\ call' = IF Lower[call.d_type] \notin type_dic
               THEN [call EXCEPT !.state = "raised", !.err = "KeyError",
                                 !.at = "d_type"]
               ELSE Bind(call)
    /\ UNCHANGED <<n_active_effects, active_effects, off_scene, on_scene,
                   visible, observers, next_tag, on_cam, off_cam, on_size,
                   off_size, off_manager_size, off_screen_rendering,
                   kde, before_add, managers, bound, gl,
                   renders, off_frame, effect, pc, pre, inv, invoked>>

\* texture_to_actor, lines 140-152, for a path load_image can read; it has
\* no pixel type.
TextureToActor ==
    /\ call.fn = "texture_to_actor" /\ call.state = "input"
    /\ call.d_type = "rgb"
    /\ call' = Bind(call)
    /\ UNCHANGED <<n_active_effects, active_effects, off_scene, on_scene,
                   visible, observers, next_tag, on_cam, off_cam, on_size,
                   off_size, off_manager_size, off_screen_rendering,
                   kde, before_add, managers, bound, gl,
                   renders, off_frame, effect, pc, pre, inv, invoked>>

\* Stage names a caller may give.
StageNames == {"vertex", "fragment", "geometry", "Vertex", "compute", ""}

\* shader_custom_uniforms falling back on the fragment stage.
CustomUniforms_Default(shader_type) ==
    IF shader_type = "vertex" THEN "GetVertexCustomUniforms"
    ELSE IF shader_type = "geometry" THEN "GetGeometryCustomUniforms"
    ELSE "GetFragmentCustomUniforms"

\* viz_kde_3d_att.py lines 201-208: the getter whose result is returned, or
\* the exception.
CustomUniforms(shader_type) ==
    IF shader_type = "vertex" THEN "GetVertexCustomUniforms"
    ELSE IF shader_type = "fragment" THEN "GetFragmentCustomUniforms"
    ELSE IF shader_type = "geometry" THEN "GetGeometryCustomUniforms"
    ELSE "ValueError"

UniformCalls ==
    [fn : {"shader_custom_uniforms"}, state : {"input"},
     actor : {Bill(e) : e \in Effects} \cup Handles,
     shader_type : StageNames, err : {"none"},
     uniforms : {[of |-> Bill(0), getter |-> "none"]}]

ShaderCustomUniforms ==
    /\ call.fn = "shader_custom_uniforms" /\ call.state = "input"
    /\ call' = IF CustomUniforms(call.shader_type) = "ValueError"
               THEN [call EXCEPT !.state = "raised", !.err = "ValueError"]
               ELSE [call EXCEPT !.state = "returned",
                         !.uniforms = [of |-> call.actor,
                             getter |-> CustomUniforms(call.shader_type)]]
    /\ UNCHANGED <<n_active_effects, active_effects, off_scene, on_scene,
                   visible, observers, next_tag, on_cam, off_cam, on_size,
                   off_size, off_manager_size, off_screen_rendering,
                   kde, before_add, managers, bound, gl,
                   renders, off_frame, effect, pc, pre, inv, invoked>>

\* Values of the arrays handed to normalize, and of its min and max.
ArrayValues == {-1, 0, 2, 3}
RangeValues == {-1, 0, 2}

\* Line 230 without the subtraction of the array's minimum.
RescaleTimesRange_FromZero(array, lo, hi) ==
    LET range == Max(Range(array)) - Min(Range(array))
    IN [i \in 1..Len(array) |-> array[i] * (hi - lo) + lo * range]

\* Line 230, every entry times np.max(array) - np.min(array), which keeps
\* the entries integers.
RescaleTimesRange(array, lo, hi) ==
    LET range == Max(Range(array)) - Min(Range(array))
    IN [i \in 1..Len(array) |->
           (array[i] - Min(Range(array))) * (hi - lo) + lo * range]

\* normalize without the test of line 229.
Normalized_Unchecked(array, lo, hi) ==
    [state |-> "returned", err |-> "none",
     range |-> Max(Range(array)) - Min(Range(array)),
     out_times_range |-> RescaleTimesRange(array, lo, hi)]

\* normalize, viz_kde_3d_att.py lines 229-233
Normalized(array, lo, hi) ==
    IF Max(Range(array)) # Min(Range(array))
    THEN [state |-> "returned", err |-> "none",
          range |-> Max(Range(array)) - Min(Range(array)),
          out_times_range |-> RescaleTimesRange(array, lo, hi)]
    ELSE [state |-> "raised", err |-> "ValueError",
          range |-> 0, out_times_range |-> << >>]

NormalizeCalls ==
    [fn : {"normalize"}, state : {"input"},
     array : SeqsUpTo(ArrayValues, MaxLen),
     min : RangeValues, max : RangeValues, err : {"none"},
     range : {0}, out_times_range : {<< >>}]

Normalize ==
    /\ call.fn = "normalize" /\ call.state = "input"
    /\ LET r == Normalized(call.array, call.min, call.max)
       IN call' = [call EXCEPT !.state = r.state, !.err = r.err,
                               !.range = r.range,
                               !.out_times_range = r.out_times_range]
    /\ UNCHANGED <<n_active_effects, active_effects, off_scene, on_scene,
                   visible, observers, next_tag, on_cam, off_cam, on_size,
                   off_size, off_manager_size, off_screen_rendering,
                   kde, before_add, managers, bound, gl,
                   renders, off_frame, effect, pc, pre, inv, invoked>>

\* Sizes of the axes of a colormap array; each row of colours has 4 channels.
AxisSizes == {1, 2, 4}

\* colormap.shape of the arrays the docstring allows (lines 162-163), and of
\* other two- and three-dimensional arrays.
ColormapShapes ==
    {<<a, b>> : a, b \in AxisSizes}
        \cup {<<a, b, c>> : a \in AxisSizes, b \in AxisSizes, c \in AxisSizes}

\* An upload that leaves the array as it was given.
Promoted_Never(shape) == shape

\* Lines 172-173: np.array([colormap]) for a two-dimensional colormap puts a
\* new first axis of size 1 before its axes.
Promoted(shape) == IF Len(shape) = 2 THEN <<1>> \o shape ELSE shape

ColormapCalls ==
    [fn : {"colormap_to_texture"}, state : {"input"},
     shape : ColormapShapes, uploaded : {<<>>}, texture_set : {FALSE}]

\* colormap_to_texture, lines 172-186: the array is promoted, converted and
\* set as the texture's input, and the texture is set on the actor.
ColormapToTexture ==
    /\ call.fn = "colormap_to_texture" /\ call.state = "input"
    /\ call' = [call EXCEPT !.state = "returned",
                            !.uploaded = Promoted(call.shape),
                            !.texture_set = TRUE]
    /\ UNCHANGED <<n_active_effects, active_effects, off_scene, on_scene,
                   visible, observers, next_tag, on_cam, off_cam, on_size,
                   off_size, off_manager_size, off_screen_rendering,
                   kde, before_add, managers, bound, gl,
                   renders, off_frame, effect, pc, pre, inv, invoked>>

InitCalls ==
    /\ ManagerInit
    /\ kde = NoKDE
    /\ managers = NoManagers
    /\ \/ call \in {c \in TextureCalls :
                       /\ c.fn = "texture_to_actor" => c.d_type = "rgb"
                       /\ c.target = c.target_before}
       \/ call \in UniformCalls
       \/ call \in NormalizeCalls
       \/ call \in ColormapCalls

NextCalls ==
    \/ WindowToTexture
    \/ TextureToActor
    \/ ShaderCustomUniforms
    \/ Normalize
    \/ ColormapToTexture

SpecCalls == InitCalls /\ [][NextCalls]_vars

----------------------------------------------------------------------------
\* Properties.

RegistrySize == Cardinality(DOMAIN active_effects)

Subscribed(e) == \E i \in 1..Len(observers) : observers[i].cb = e

Occurrences(s, x) == Cardinality({i \in 1..Len(s) : s[i] = x})

Before(s, x, y) ==
    \E i, j \in 1..Len(s) : i < j /\ s[i] = x /\ s[j] = y

\* Effects whose add returned a handle, and effects removed since.
Added == {e \in Effects : effect[e].state \in {"active", "removed"}}
Removed == {e \in Effects : effect[e].state = "removed"}

\* Registry, counter, subscriptions and scenes are as when the handler was
\* called.
ManagerUnchanged ==
    /\ active_effects = pre.active_effects
    /\ n_active_effects = pre.n
    /\ observers = pre.observers
    /\ off_scene = pre.off_scene
    /\ on_scene = pre.on_scene

\* C1: between handlers (and while a render event runs) every registry entry
\* has exactly one subscribed callback, which is its own effect's and is
\* shared with no other entry; its first-pass billboard is in the off-screen
\* scene once and its key, the second-pass billboard, is in the on-screen
\* scene once.
C1_RegistryEntriesBacked ==
    pc.op \in {"idle", "frame"} =>
        \A h \in DOMAIN active_effects :
            /\ Cardinality({i \in 1..Len(observers) :
                   observers[i].id = active_effects[h].callback_id}) = 1
            /\ \A i \in 1..Len(observers) :
                   observers[i].id = active_effects[h].callback_id
                       => observers[i].cb = h.eff
            /\ \A g \in DOMAIN active_effects :
                   g # h => active_effects[g].callback_id
                                # active_effects[h].callback_id
            /\ active_effects[h].bill = Bill(h.eff)
            /\ Occurrences(off_scene, active_effects[h].bill) = 1
            /\ Occurrences(on_scene, h) = 1

C1_Witness ==
    /\ pc = Idle
    /\ RegistrySize >= 1
    /\ Removed # {}

\* C2: when add returns a handle, the registry holds exactly one entry more
\* and the render event exactly one observer more than when add was called.
C2_AddIncrements ==
    (pc.op = "add" /\ pc.step = "return") =>
        /\ RegistrySize = Cardinality(DOMAIN pre.active_effects) + 1
        /\ Len(observers) = Len(pre.observers) + 1

C2_Witness ==
    /\ pc.op = "add" /\ pc.step = "return"
    /\ Cardinality(DOMAIN pre.active_effects) >= 1

\* C3: remove_effect with a registered handle returns with the registry one
\* entry smaller and the handle gone; remove_effect on an empty registry
\* raises the no-active-effects error (IndexError) and changes nothing.
C3_RemoveEffect ==
    pc.op = "remove_effect" =>
        /\ pre.arg \in DOMAIN pre.active_effects =>
               /\ pc.step = "return"
               /\ RegistrySize = Cardinality(DOMAIN pre.active_effects) - 1
               /\ pre.arg \notin DOMAIN active_effects
        /\ DOMAIN pre.active_effects = {} =>
               /\ pc.step = "raised"
               /\ pc.err = "IndexError"
               /\ ManagerUnchanged

C3_Witness ==
    /\ pc.op = "remove_effect"
    /\ pc.err = "IndexError"
    /\ effect[pc.eff].state = "removed"

\* C4: outside add, the registry size is the number of adds that returned a
\* handle minus the number of removes that returned; a remove that fails
\* when these are equal fails with the no-active-effects error.
C4_SizeIsAddsMinusRemoves ==
    pc.op # "add" =>
        /\ RegistrySize = Cardinality(Added) - Cardinality(Removed)
        /\ (/\ pc.op = "remove_effect"
            /\ pc.step = "raised"
            /\ Cardinality(Added) = Cardinality(Removed))
               => pc.err = "IndexError"

C4_Witness ==
    /\ pc.op = "remove_effect"
    /\ pc.err = "IndexError"
    /\ Cardinality(Added) = 2
    /\ Cardinality(Removed) = 2
    /\ RegistrySize = 0

\* C5: when add raises, the registry and the counter are what they were when
\* add was called.
C5_FailedAddNoRegistration ==
    (pc.op = "add" /\ pc.step = "raised") =>
        /\ active_effects = pre.active_effects
        /\ n_active_effects = pre.n

C5_Witness ==
    /\ pc.op = "add" /\ pc.step = "raised"
    /\ pc.err = "RuntimeError"
    /\ pre.n >= 1

\* C6: a second-pass billboard in the on-screen scene has its colormap
\* texture and a captured screenTexture bound and its callback subscribed; a
\* subscribed callback has run before; until add has made its one
\* synchronous call nothing is subscribed or inserted for the effect, and
\* after it exactly one call was made.
C6_AddOrder ==
    /\ \A e \in Effects :
           TexturedBillboard(e) \in Range(on_scene) =>
               /\ effect[e].colormapTexture
               /\ effect[e].screenTexture # NoFrame
               /\ Subscribed(e)
    /\ \A e \in Effects :
           Subscribed(e) => effect[e].screenTexture # NoFrame
    /\ (pc.op = "add" /\ invoked = << >> /\ pc.step # "raised") =>
           /\ ~Subscribed(pc.eff)
           /\ TexturedBillboard(pc.eff) \notin Range(on_scene)
    /\ (pc.op = "add" /\ pc.step = "return") => invoked = <<pc.eff>>

C6_Witness ==
    /\ pc.op = "add" /\ pc.step = "return"
    /\ TexturedBillboard(pc.eff) \in Range(on_scene)
    /\ pre.n >= 1

\* C7: in a callback invocation the camera copy comes before the off-screen
\* render and the render before the rebind; when the invocation returns all
\* three are done and the bound screenTexture is the frame rendered with the
\* on-screen camera and size; the on-screen scene is drawn only after the
\* callback of every observer has returned.
C7_CallbackOrder ==
    /\ "render" \in Range(inv) => Before(inv, "camera", "render")
    /\ "rebind" \in Range(inv) => Before(inv, "render", "rebind")
    /\ pc.step = "called" =>
           /\ {"camera", "render", "rebind"} \subseteq Range(inv)
           /\ effect[pc.eff].screenTexture
                  = [cam |-> on_cam, size |-> on_size]
    /\ (pc.op = "frame" /\ pc.step = "draw") =>
           \A i \in 1..Len(observers) : observers[i].cb \in Range(invoked)

C7_Witness ==
    /\ pc.op = "frame" /\ pc.step = "draw"
    /\ Len(invoked) >= 2
    /\ inv = <<"camera", "size", "uniform", "state", "render", "rebind">>

\* C8: no callback of a removed effect is subscribed, and a render event
\* invokes no callback of a removed effect.
C8_RemovedNeverInvoked ==
    /\ \A e \in Removed : ~Subscribed(e)
    /\ (pc.op = "frame" /\ pc.eff # 0) => pc.eff \notin Removed
    /\ pc.op = "frame" => Range(invoked) \cap Removed = {}

C8_Witness ==
    /\ pc.op = "frame" /\ pc.step = "draw"
    /\ Removed # {}
    /\ invoked # << >>

\* C9: when remove_effect returns, the removed effect's first-pass billboard
\* is not in the off-screen scene and its second-pass billboard is not in
\* the on-screen scene; every other actor of both scenes is still there, in
\* particular the billboards of every remaining registry entry.
C9_RemoveDetaches ==
    (pc.op = "remove_effect" /\ pc.step = "return") =>
        /\ pre.active_effects[pre.arg].bill \notin Range(off_scene)
        /\ pre.arg \notin Range(on_scene)
        /\ Range(off_scene)
               = Range(pre.off_scene) \ {pre.active_effects[pre.arg].bill}
        /\ Range(on_scene) = Range(pre.on_scene) \ {pre.arg}
        /\ \A h \in DOMAIN active_effects :
               /\ h \in Range(on_scene)
               /\ active_effects[h].bill \in Range(off_scene)

C9_Witness ==
    /\ pc.op = "remove_effect" /\ pc.step = "return"
    /\ RegistrySize >= 1
    /\ pre.arg \in Range(pre.on_scene)

\* C10: the callbacks a render event has invoked so far were invoked in the
\* order of the add calls (effects are numbered in that order), which is
\* the order of their subscription tags.
C10_SubscriptionOrder ==
    pc.op = "frame" =>
        \A i, j \in 1..Len(invoked) :
            i < j =>
                /\ invoked[i] < invoked[j]
                /\ \A g, h \in DOMAIN active_effects :
                       (g.eff = invoked[i] /\ h.eff = invoked[j]) =>
                           active_effects[g].callback_id
                               < active_effects[h].callback_id

C10_Witness ==
    /\ pc.op = "frame"
    /\ Len(invoked) = 2
    /\ RegistrySize = 2

\* C11: when a render event has dispatched its observers, the callback of
\* every registered effect was invoked exactly once and the handler made as
\* many off-screen renders as the registry has entries.
C11_OncePerFrame ==
    (pc.op = "frame" /\ pc.step \in {"draw", "return"}) =>
        /\ \A h \in DOMAIN active_effects : Occurrences(invoked, h.eff) = 1
        /\ Len(invoked) = RegistrySize
        /\ renders = RegistrySize

C11_Witness ==
    /\ pc.op = "frame" /\ pc.step = "draw"
    /\ RegistrySize = 2
    /\ renders = 2

\* C19: when a callback is about to render off screen, the off-screen camera
\* is the on-screen camera, the off-screen size is the on-screen size and
\* the effect's "res" uniform is that size.
C19_SyncedAtRender ==
    (InCallback /\ pc.step = "render") =>
        /\ off_cam = on_cam
        /\ off_size = on_size
        /\ effect[pc.eff].uniform_res = on_size

C19_Witness ==
    /\ InCallback /\ pc.step = "render"
    /\ pc.op = "frame"
    /\ off_frame # NoFrame
    /\ off_frame.cam # on_cam
    /\ off_frame.size # on_size

\* C20: with several effects registered, a callback about to render off
\* screen finds its own first-pass billboard, and no other, drawn by the
\* off-screen scene.
C20_OnlyOwnBillboardDrawn ==
    (InCallback /\ pc.step = "render" /\ RegistrySize >= 2) =>
        Drawn = {pc.eff}

\* C18: when EffectManager(host) returns, the registry is empty and the
\* counter 0, the off-screen window and show manager have the host's size,
\* the off-screen camera is the host's camera and the off-screen window is
\* in off-screen rendering mode.
C18_Constructed ==
    (pc.op = "construct" /\ pc.step = "return") =>
        /\ active_effects = EmptyRegistry
        /\ n_active_effects = 0
        /\ off_size = on_size
        /\ off_manager_size = on_size
        /\ off_cam = on_cam
        /\ off_screen_rendering

C18_Witness ==
    /\ pc.op = "construct" /\ pc.step = "return"
    /\ on_cam = 2
    /\ on_size = 2

\* The KDE object has left its constructor.
KDEDone == kde.stage \in {"raised", "constructed", "applied"}

NumPoints == Len(kde.points)

\* C12: for an ndarray of bandwidths whose length is neither 1 nor the number
\* of points the constructor raises the shape error (IndexError) and builds
\* no billboard; for one of that number of positive values it succeeds.
C12_ShapeError ==
    (KDEDone /\ kde.kind = "ndarray") =>
        /\ Len(kde.bandwidths) \notin {1, NumPoints} =>
               /\ kde.stage = "raised"
               /\ kde.err = "IndexError"
               /\ ~kde.bill
        /\ (/\ Len(kde.bandwidths) = NumPoints
            /\ \A i \in 1..Len(kde.bandwidths) : kde.bandwidths[i] > 0) =>
               /\ kde.stage # "raised"
               /\ kde.bill

C12_Witness ==
    /\ kde.stage = "raised"
    /\ kde.kind = "ndarray"
    /\ NumPoints = 1
    /\ kde.bandwidths = <<1, 2>>
    /\ kde.err = "IndexError"

\* C13 as stated: a bandwidth value <= 0 makes the constructor raise
\* ValueError whatever the other values and the length.
C13_AlwaysValueError ==
    (KDEDone /\ \E i \in 1..Len(kde.bandwidths) : kde.bandwidths[i] <= 0) =>
        /\ kde.stage = "raised"
        /\ kde.err = "ValueError"

\* C13 amended: a bandwidth value <= 0 makes the constructor raise: the shape
\* error when the bandwidths are an ndarray whose length is neither 1 nor the
\* number of points, ValueError in every other case.
C13_NonPositiveRaises ==
    (KDEDone /\ \E i \in 1..Len(kde.bandwidths) : kde.bandwidths[i] <= 0) =>
        /\ kde.stage = "raised"
        /\ kde.err = IF /\ kde.kind = "ndarray"
                        /\ Len(kde.bandwidths) \notin {1, NumPoints}
                     THEN "IndexError"
                     ELSE "ValueError"

C13_Witness ==
    /\ kde.stage = "raised"
    /\ kde.kind = "ndarray"
    /\ NumPoints = 2
    /\ kde.bandwidths = <<2, 0>>
    /\ kde.err = "ValueError"

\* C14: for a single bandwidth value b and N points, the scales are N times
\* 2*3.0*b and apply uploads 4N entries of in_scale and 4N entries of
\* in_bandwidth, each in_bandwidth entry being b.
C14_BroadcastToEveryVertex ==
    (kde.stage = "applied" /\ Len(kde.bandwidths) = 1) =>
        /\ Len(kde.scales) = NumPoints
        /\ \A i \in 1..Len(kde.scales) :
               kde.scales[i] = 2 * 3 * kde.bandwidths[1]
        /\ Len(kde.in_scale) = 4 * NumPoints
        /\ Len(kde.in_bandwidth) = 4 * NumPoints
        /\ \A j \in 1..Len(kde.in_bandwidth) :
               kde.in_bandwidth[j] = kde.bandwidths[1]

\* C15: the second-pass quad extent is at least the first-pass billboard's
\* extent in x, and in y, plus 2*4.0 times the largest bandwidth (all times
\* the number of points).
C15_QuadCoversFirstPass ==
    kde.stage = "applied" =>
        LET margin == 2 * 4 * Max(Range(kde.bandwidths)) IN
        /\ kde.scale_n[1] >=
               NumPoints * (kde.bill_bounds.xmax - kde.bill_bounds.xmin)
                   + NumPoints * margin
        /\ kde.scale_n[2] >=
               NumPoints * (kde.bill_bounds.ymax - kde.bill_bounds.ymin)
                   + NumPoints * margin

\* The bandwidth of point i: the single value, or the i-th of N values.
PointBandwidth(i) ==
    IF Len(kde.bandwidths) = 1 THEN kde.bandwidths[1] ELSE kde.bandwidths[i]

\* C16: every point's scale is 2*3.0 times its bandwidth, and the margin of
\* the second-pass quad is 2*4.0 times the largest bandwidth.
C16_Factors ==
    /\ (kde.stage \in {"constructed", "applied"}
            /\ Len(kde.scales) = NumPoints) =>
           \A i \in 1..NumPoints : kde.scales[i] = 2 * 3 * PointBandwidth(i)
    /\ kde.stage = "applied" =>
           kde.max_bandwidth = 2 * 4 * Max(Range(kde.bandwidths))

C16_Witness ==
    /\ kde.stage = "applied"
    /\ kde.points = << <<0, 0>> >>
    /\ kde.bandwidths = <<2>>
    /\ kde.scales = <<12>>
    /\ kde.max_bandwidth = 16

\* C17: the second-pass billboard is at the centroid of the points and is
\* square, both axes taking the larger of the computed x and y extents.
C17_SquareAtCentroid ==
    kde.stage = "applied" =>
        /\ kde.textured_billboard_at_n
               = <<Sum([i \in 1..NumPoints |-> kde.points[i][1]]),
                   Sum([i \in 1..NumPoints |-> kde.points[i][2]])>>
        /\ kde.scale_n[1] = kde.scale_n[2]
        /\ kde.scale_n[1]
               = Max({kde.actor_scales_n[1], kde.actor_scales_n[2]})

\* The wrap modes and the blending modes, by the lower-case form of the names
\* that select them.
WrapModes == {"clamptoedge", "repeat", "mirroredrepeat", "clamptoborder"}
BlendModes == {"none", "replace", "modulate", "add", "addsigned",
               "interpolate", "subtract"}

TextureCallDone ==
    /\ call.fn \in {"window_to_texture", "texture_to_actor"}
    /\ call.state # "input"

\* C21: a call of window_to_texture or texture_to_actor whose wrap-mode name
\* or blending-mode name selects none of the modes raises the lookup error
\* (KeyError) and sets no texture on the actor.
C21_UnknownModeRaises ==
    (/\ TextureCallDone
     /\ \/ Lower[call.wrap_mode] \notin WrapModes
        \/ Lower[call.blending_mode] \notin BlendModes) =>
        /\ call.state = "raised"
        /\ call.err = "KeyError"
        /\ ~call.texture_set

C21_Witness ==
    /\ call.fn = "texture_to_actor"
    /\ call.wrap_mode = "Repeat"
    /\ call.blending_mode = "Multiply"
    /\ call.state = "raised"
    /\ call.at = "blending_mode"

NormalizeDone == call.fn = "normalize" /\ call.state # "input"

NonConstant(array) == \E i, j \in 1..Len(array) : array[i] # array[j]

\* C24 as stated: for a non-constant array the smallest output is lo and the
\* largest is hi, and with lo <= hi every output is between them.
C24_MinIsLoMaxIsHi ==
    (NormalizeDone /\ NonConstant(call.array)) =>
        /\ call.state = "returned"
        /\ Min(Range(call.out_times_range)) = call.min * call.range
        /\ Max(Range(call.out_times_range)) = call.max * call.range
        /\ call.min <= call.max =>
               \A i \in 1..Len(call.out_times_range) :
                   /\ call.out_times_range[i] >= call.min * call.range
                   /\ call.out_times_range[i] <= call.max * call.range

\* C24 amended: for a non-constant array and lo <= hi the smallest output is
\* lo, the largest is hi and every output is between them; for lo > hi the
\* smallest output is hi and the largest is lo.
C24_RangeReached ==
    (NormalizeDone /\ NonConstant(call.array)) =>
        /\ call.state = "returned"
        /\ Len(call.out_times_range) = Len(call.array)
        /\ call.range > 0
        /\ call.min <= call.max =>
               /\ Min(Range(call.out_times_range)) = call.min * call.range
               /\ Max(Range(call.out_times_range)) = call.max * call.range
               /\ \A i \in 1..Len(call.out_times_range) :
                      /\ call.out_times_range[i] >= call.min * call.range
                      /\ call.out_times_range[i] <= call.max * call.range
        /\ call.min > call.max =>
               /\ Min(Range(call.out_times_range)) = call.max * call.range
               /\ Max(Range(call.out_times_range)) = call.min * call.range

C24_Witness ==
    /\ NormalizeDone
    /\ call.array = <<3, 0>>
    /\ call.min = -1
    /\ call.max = 2
    /\ call.range = 3
    /\ call.out_times_range = <<6, -3>>

\* C25: normalize of an array whose largest and smallest values are equal
\* raises ValueError and returns no value.
C25_ConstantRaises ==
    (NormalizeDone /\ ~NonConstant(call.array)) =>
        /\ call.state = "raised"
        /\ call.err = "ValueError"
        /\ call.out_times_range = << >>

C25_Witness ==
    /\ NormalizeDone
    /\ call.array = <<2, 2>>
    /\ call.state = "raised"

\* C26: shader_custom_uniforms returns the uniforms of the requested stage
\* of the given actor for "vertex", "fragment" and "geometry", and raises
\* (ValueError) for every other stage name.
C26_StageUniforms ==
    (call.fn = "shader_custom_uniforms" /\ call.state # "input") =>
        /\ call.shader_type = "vertex" =>
               /\ call.state = "returned"
               /\ call.uniforms = [of |-> call.actor,
                                   getter |-> "GetVertexCustomUniforms"]
        /\ call.shader_type = "fragment" =>
               /\ call.state = "returned"
               /\ call.uniforms = [of |-> call.actor,
                                   getter |-> "GetFragmentCustomUniforms"]
        /\ call.shader_type = "geometry" =>
               /\ call.state = "returned"
               /\ call.uniforms = [of |-> call.actor,
                                   getter |-> "GetGeometryCustomUniforms"]
        /\ call.shader_type \notin {"vertex", "fragment", "geometry"} =>
               /\ call.state = "raised"
               /\ call.err = "ValueError"

C26_Witness ==
    /\ call.fn = "shader_custom_uniforms"
    /\ call.shader_type = "Vertex"
    /\ call.state = "raised"
    /\ call.err = "ValueError"

\* C23: every Texture object is set on one actor under one name, and that
\* actor is the second-pass billboard of the effect whose apply or callback
\* created it; an applied effect has its own "colormapTexture" and an effect
\* whose callback ran to the end its own "screenTexture".
C23_TexturesNotShared ==
    /\ \A x, y \in bound : x.tex = y.tex => x = y
    /\ \A x \in bound : x.actor = TexturedBillboard(x.by)
    /\ \A e \in Effects :
           /\ effect[e].colormapTexture =>
                  \E x \in bound : /\ x.actor = TexturedBillboard(e)
                                   /\ x.name = "colormapTexture"
           /\ effect[e].state = "active" =>
                  \E x \in bound : /\ x.actor = TexturedBillboard(e)
                                   /\ x.name = "screenTexture"

C23_Witness ==
    /\ pc.op = "frame" /\ pc.step = "return"
    /\ Len(invoked) = 2
    /\ Cardinality(bound) = 4
    /\ Cardinality({x.tex : x \in bound}) = 4

\* C28: except between lines 219 and 220 of add, the counter is the number
\* of registry entries; in particular after every add and remove_effect,
\* returned or raised.
C28_CounterIsRegistrySize ==
    ~(pc.op = "add" /\ pc.step = "count") =>
        n_active_effects = RegistrySize

C28_Witness ==
    /\ pc.op = "add" /\ pc.step = "raised"
    /\ pc.err = "ValueError"
    /\ n_active_effects = 1
    /\ RegistrySize = 1

\* C29: remove_effect with a handle that is no key of a non-empty registry
\* raises the key-lookup error (KeyError) and changes neither the registry,
\* the counter, the subscriptions nor the scenes.
C29_UnknownHandle ==
    (/\ pc.op = "remove_effect"
     /\ pre.arg \notin DOMAIN pre.active_effects
     /\ DOMAIN pre.active_effects # {}) =>
        /\ pc.step = "raised"
        /\ pc.err = "KeyError"
        /\ ManagerUnchanged

C29_Witness ==
    /\ pc.op = "remove_effect"
    /\ pc.err = "KeyError"
    /\ effect[pre.arg.eff].state = "removed"
    /\ RegistrySize = 1

\* C30: no step makes a hidden first-pass billboard visible.
C30_NeverShownAgain ==
    [][\A e \in Effects : ~visible[e] => ~visible'[e]]_vars

C30_Witness ==
    /\ pc.op = "frame" /\ pc.step = "return"
    /\ ~visible[1]
    /\ effect[1].state = "active"
    /\ effect[2].state = "removed"
    /\ invoked = <<1>>

\* C27: when a callback invocation is about to render the off-screen scene,
\* it has applied the depth and blending state in this invocation and the
\* off-screen window is in that state, whatever the toolkit did before.
C27_StateAssertedAtRender ==
    (InCallback /\ pc.step = "render") =>
        /\ gl = GLAdditiveNoDepth
        /\ Occurrences(inv, "state") = 1
        /\ Occurrences(inv, "render") = 0

C27_Witness ==
    /\ pc.op = "frame" /\ pc.step = "render"
    /\ pc.idx = 2
    /\ gl = GLAdditiveNoDepth
    /\ inv = <<"camera", "size", "uniform", "state">>

\* A step is an add, a remove_effect or a callback of manager m.
Acts(m) ==
    \/ \E e \in Effects, f \in FailModes : AddTo(m, e, f)
    \/ \E h \in Handles : RemoveFrom(m, h)
    \/ \E i \in 1..Len(observers) :
           /\ observers[i].cb.effect_manager = m
           /\ Invoke(i)

\* C22: an add, a remove_effect or a callback of one manager leaves the
\* registry, the counter and the off-screen scene, with the visibility of
\* its actors, of every other manager as they were.
C22_ManagersIndependent ==
    [][\A m \in Managers :
          Acts(m) =>
              \A k \in Managers \ {m} :
                  /\ managers'[k].active_effects = managers[k].active_effects
                  /\ managers'[k].n_active_effects
                         = managers[k].n_active_effects
                  /\ managers'[k].off_scene = managers[k].off_scene
                  /\ managers'[k].visible = managers[k].visible]_vars

C22_Witness ==
    /\ managers # NoManagers
    /\ managers[1].n_active_effects = 1
    /\ managers[1].off_scene = <<Bill(1)>>
    /\ managers[1].off_cam # managers[2].off_cam
    /\ managers[2].n_active_effects = 0
    /\ managers[2].off_scene = << >>
    /\ effect[2].state = "removed"

\* Effects handed to add so far; they are numbered in that order.
HandedToAdd == {e \in Effects : effect[e].state # "constructed"}

\* C31: outside add, at most one first-pass billboard of the off-screen
\* scene is visible, and a visible one belongs to the effect handed to add
\* last.
C31_AtMostLastVisible ==
    pc.op # "add" =>
        /\ Cardinality(Drawn) <= 1
        /\ \A e \in Drawn : e = Max(HandedToAdd)

\* An add that raised in apply after line 336, or in the first callback.
AddFailedLate ==
    /\ pc.op = "add" /\ pc.step = "raised"
    /\ pc.err \in {"ValueError", "RuntimeError"}

\* C32: when add raises in apply after the first-pass billboard was inserted,
\* or in the first callback, that billboard is in the off-screen scene and
\* the actor that was last before is hidden, while the subscriptions and the
\* on-screen scene are as before the call; the billboard of an effect whose
\* add failed so stays in the off-screen scene.
C32_FailedAddNotRolledBack ==
    /\ AddFailedLate =>
           /\ Bill(pc.eff) \in Range(off_scene)
           /\ Bill(pc.eff) \notin Range(pre.off_scene)
           /\ pre.n > 0 => ~visible[GetLastActor(pre.off_scene).eff]
           /\ observers = pre.observers
           /\ on_scene = pre.on_scene
    /\ \A e \in Effects :
           (effect[e].state = "failed" /\ effect[e].has_tb) =>
               Bill(e) \in Range(off_scene)

C32_Witness ==
    /\ AddFailedLate
    /\ pc.err = "ValueError"
    /\ pc.eff = 2
    /\ pre.n = 1
    /\ off_scene = <<Bill(1), Bill(2)>>
    /\ ~visible[1]

\* C33: the handle add returns is the key of the one registry entry add
\* made; and when remove_effect of that handle is the next handler of either
\* manager to change anything, it leaves the manager's registry and counter,
\* the subscribed callbacks and the actors of the manager's off-screen scene
\* and of the on-screen scene as add found them.
C33_AddThenRemove ==
    before_add # NoAdd =>
        LET m == before_add.manager
            h == before_add.returned
        IN IF before_add.removed
           THEN /\ managers[m].active_effects = before_add.active_effects
                /\ managers[m].n_active_effects = before_add.n_active_effects
                /\ Range(observers) = Range(before_add.observers)
                /\ Range(managers[m].off_scene) = Range(before_add.off_scene)
                /\ Range(on_scene) = Range(before_add.on_scene)
           ELSE /\ h \notin DOMAIN before_add.active_effects
                /\ DOMAIN managers[m].active_effects
                       = DOMAIN before_add.active_effects \cup {h}
                /\ managers[m].active_effects[h].bill = Bill(h.eff)

C33_Witness ==
    /\ before_add # NoAdd
    /\ before_add.removed
    /\ before_add.returned = TexturedBillboard(2)
    /\ before_add.n_active_effects = 1
    /\ managers[before_add.manager].n_active_effects = 1

\* The thread is in a callback invocation, from its entry to its return.
InInvocation ==
    /\ pc.op \in {"add", "frame"}
    /\ pc.step \in {"call", "called"} \cup Range(CallbackOrder)

\* The textures set on the second-pass billboards other than effect e's, and
\* effect e's "colormapTexture".
OtherBindings(b, e) ==
    {x \in b : x.actor # TexturedBillboard(e) \/ x.name # "screenTexture"}

C35_FailsBeforeAttach ==
    (/\ TextureCallDone
     /\ call.state = "raised"
     /\ call.at \in {"wrap_mode", "blending_mode"}) =>
        call.target = call.target_before

C35_Witness ==
    /\ call.fn = "window_to_texture"
    /\ call.state = "raised"
    /\ call.at = "wrap_mode"
    /\ call.wrap_mode = "Mirror"
    /\ call.target_before # {}
    /\ call.target = call.target_before

ColormapDone == call.fn = "colormap_to_texture" /\ call.state # "input"

\* C36: colormap_to_texture uploads a two-dimensional colormap of shape
\* (R, C) as an array of shape (1, R, C) and a three-dimensional colormap
\* with its shape as given, so the array uploaded has three axes.
C36_ColormapPromoted ==
    ColormapDone =>
        /\ call.state = "returned"
        /\ call.texture_set
        /\ Len(call.shape) = 2 =>
               call.uploaded = <<1, call.shape[1], call.shape[2]>>
        /\ Len(call.shape) = 3 => call.uploaded = call.shape
        /\ Len(call.uploaded) = 3

C36_Witness ==
    /\ ColormapDone
    /\ call.shape = <<2, 4>>
    /\ call.uploaded = <<1, 2, 4>>

\* C37: for bandwidths given as a plain list of any length or as a scalar,
\* the constructor never raises the shape error (IndexError): it raises
\* ValueError when some value is <= 0 and builds the effect otherwise.
C37_NonArrayNeverShapeError ==
    (KDEDone /\ kde.kind \in {"list", "scalar"}) =>
        IF \E i \in 1..Len(kde.bandwidths) : kde.bandwidths[i] <= 0
        THEN kde.stage = "raised" /\ kde.err = "ValueError"
        ELSE kde.stage # "raised" /\ kde.bill

C37_Witness ==
    /\ kde.stage = "constructed"
    /\ kde.kind = "list"
    /\ NumPoints = 1
    /\ kde.bandwidths = <<1, 2>>
    /\ kde.bill

====
